---- MODULE Spec2Model ----
(***************************************************************************)
(* A model of the CrisisGuard agent (backend/crisisguard_agent_api.py):    *)
(* the sliding-window counters, the filesystem event handler, the process  *)
(* sampler, the detectors and their fusion, the action pipeline, the       *)
(* detection loop and the HTTP / WebSocket interface, as the concurrent    *)
(* units that share the module-level state of the program.                 *)
(*                                                                         *)
(* Numbers.  Python floats are modelled as exact rationals <<n, d>> with   *)
(* d > 0, kept in lowest terms.  Time is a clock of whole seconds.  A      *)
(* file's content is one of a few classes, each with a size and a Shannon  *)
(* entropy.                                                                *)
(*                                                                         *)
(* Atomicity.  Every action is one stretch of a thread between two points  *)
(* where another thread's effect on the shared state can be seen.  A       *)
(* coroutine of the API's event loop runs from one await to the next       *)
(* without another coroutine in between, the threads interleave freely.    *)
(***************************************************************************)
EXTENDS Integers, Sequences, FiniteSets, TLC

\* ------------------------------------------------------------------ bounds
MaxClock == 2
MaxEvents == 2
MaxSamples == 2
MaxRetunes == 1
MaxFsOps == 1
MaxRequests == 2
MaxUpdates == 2
MaxCycles == 2
MaxAdds == 3
MaxTicks == 3

\* --------------------------------------------------------------- rationals
RECURSIVE Gcd(_, _)
Gcd(a, b) == IF b = 0 THEN a ELSE Gcd(b, a % b)

Abs(x) == IF x < 0 THEN -x ELSE x

\* The rational n/d (d # 0) in lowest terms with a positive denominator.
Rat(n, d) ==
    LET g == Gcd(Abs(n), Abs(d))
        s == IF d < 0 THEN -1 ELSE 1
    IN  <<(s * n) \div g, (s * d) \div g>>

RInt(n) == <<n, 1>>
RAdd(x, y) == Rat(x[1] * y[2] + y[1] * x[2], x[2] * y[2])
RMul(x, y) == Rat(x[1] * y[1], x[2] * y[2])
RDiv(x, y) == Rat(x[1] * y[2], x[2] * y[1])
RLess(x, y) == x[1] * y[2] < y[1] * x[2]
RLeq(x, y) == x[1] * y[2] <= y[1] * x[2]
\* Python's min(a, b) and max(a, b): the first argument unless the second is
\* strictly smaller (greater).
RMin(x, y) == IF RLess(y, x) THEN y ELSE x
RMax(x, y) == IF RLess(x, y) THEN y ELSE x
\* int(x) of a float: truncation toward zero.
RTrunc(x) == IF x[1] >= 0 THEN x[1] \div x[2] ELSE -((-x[1]) \div x[2])

Zero == RInt(0)
One == RInt(1)

\* ------------------------------------------------------- program constants
\* runtime_config's startup values.
FILES_MODIFIED_THRESHOLD_0 == 5
TIME_WINDOW_SECONDS_0 == 15
BYTES_WRITTEN_THRESHOLD_0 == 10240
RENAMES_THRESHOLD_0 == 2
ENTROPY_THRESHOLD_0 == RInt(2)
CONFIDENCE_ACTION_THRESHOLD_0 == Rat(5, 100)
CONFIDENCE_WARN_THRESHOLD_0 == Rat(2, 100)

CfgKeys ==
    {"FILES_MODIFIED_THRESHOLD", "TIME_WINDOW_SECONDS", "BYTES_WRITTEN_THRESHOLD",
     "RENAMES_THRESHOLD", "ENTROPY_THRESHOLD", "CONFIDENCE_ACTION_THRESHOLD",
     "CONFIDENCE_WARN_THRESHOLD"}

\* A Python number: its type and its value.
PyInt(n) == [ty |-> "int", v |-> RInt(n)]
PyFloat(x) == [ty |-> "float", v |-> x]

InitConfig ==
    [k \in CfgKeys |->
        CASE k = "FILES_MODIFIED_THRESHOLD" -> PyInt(FILES_MODIFIED_THRESHOLD_0)
          [] k = "TIME_WINDOW_SECONDS" -> PyInt(TIME_WINDOW_SECONDS_0)
          [] k = "BYTES_WRITTEN_THRESHOLD" -> PyInt(BYTES_WRITTEN_THRESHOLD_0)
          [] k = "RENAMES_THRESHOLD" -> PyInt(RENAMES_THRESHOLD_0)
          [] k = "ENTROPY_THRESHOLD" -> PyFloat(ENTROPY_THRESHOLD_0)
          [] k = "CONFIDENCE_ACTION_THRESHOLD" -> PyFloat(CONFIDENCE_ACTION_THRESHOLD_0)
          [] OTHER -> PyFloat(CONFIDENCE_WARN_THRESHOLD_0)]

\* The detector weights, in hundredths.
DetectorNames ==
    {"file_rate", "bytes_written", "rename_spike", "ransom_note", "entropy",
     "proc_behavior", "ml_score"}

WEIGHTS ==
    [k \in DetectorNames |->
        CASE k = "file_rate" -> Rat(25, 100)
          [] k = "bytes_written" -> Rat(20, 100)
          [] k = "rename_spike" -> Rat(15, 100)
          [] k = "ransom_note" -> Rat(20, 100)
          [] k = "entropy" -> Rat(20, 100)
          [] k = "proc_behavior" -> Rat(25, 100)
          [] OTHER -> Rat(15, 100)]

\* recent_modified_files = deque(maxlen=200)
RecentMaxLen == 200
\* list(recent_modified_files)[:20] and [:5]
SnapshotLimit == 20
EntropySampleLimit == 5

\* ------------------------------------------------------------ environment
\* Paths under SANDBOX_DIR and one outside it.
InsidePaths == {"a.txt", "README.txt", "readme_for_decrypt.txt"}
OutsidePaths == {"/tmp/o.txt"}
PlainPaths == {"a.txt"}
\* Path(p).name, as its characters.
NameOf(p) ==
    CASE p = "a.txt" -> <<"a", ".", "t", "x", "t">>
      [] p = "README.txt" -> <<"R", "E", "A", "D", "M", "E", ".", "t", "x", "t">>
      [] p = "readme_for_decrypt.txt" ->
            <<"r", "e", "a", "d", "m", "e", "_", "f", "o", "r", "_", "d", "e", "c", "r", "y", "p", "t", ".", "t", "x", "t">>
      [] OTHER -> <<"o", ".", "t", "x", "t">>

\* str.upper() on ASCII text
Lowercase == <<"a", "b", "c", "d", "e", "f", "g", "h", "i", "j", "k", "l", "m",
      "n", "o", "p", "q", "r", "s", "t", "u", "v", "w", "x", "y", "z">>
Uppercase == <<"A", "B", "C", "D", "E", "F", "G", "H", "I", "J", "K", "L", "M",
      "N", "O", "P", "Q", "R", "S", "T", "U", "V", "W", "X", "Y", "Z">>
UpperChar(c) ==
    IF \E i \in 1..Len(Lowercase) : Lowercase[i] = c
    THEN Uppercase[CHOOSE i \in 1..Len(Lowercase) : Lowercase[i] = c]
    ELSE c
Upper(s) == [i \in 1..Len(s) |-> UpperChar(s[i])]

\* pat in name
Contains(pat, name) ==
    \E i \in 1..(Len(name) - Len(pat) + 1) : SubSeq(name, i, i + Len(pat) - 1) = pat

ransom_note_patterns ==
    {<<"R", "E", "A", "D", "M", "E">>,
     <<"H", "O", "W", "_", "T", "O", "_", "D", "E", "C", "R", "Y", "P", "T">>,
     <<"R", "E", "C", "O", "V", "E", "R">>,
     <<"R", "E", "A", "D", "M", "E", "_", "F", "O", "R", "_", "D", "E", "C", "R", "Y", "P", "T">>}

\* The paths whose name the pattern test takes as it is, without upper()
RansomNamedCaseSensitive ==
    {p \in InsidePaths \cup OutsidePaths :
        \E pat \in ransom_note_patterns : Contains(pat, NameOf(p))}

\* The paths for which  any(pat in p.name.upper() for pat in ransom_note_patterns)
RansomNamed ==
    {p \in InsidePaths \cup OutsidePaths :
        \E pat \in ransom_note_patterns : Contains(pat, Upper(NameOf(p)))}

\* A file's content class: "none" is no file.
Contents == {"random"}
FileSize(c) == CASE c = "random" -> 4096 [] OTHER -> 0
\* entropy(data) of the first 4096 bytes, in bits per byte.
FileEntropy(c) == CASE c = "random" -> RInt(8) [] OTHER -> Zero

\* Processes that are not in PROCESS_WHITELIST, and their write counters.
Pids == {7}
WriteBytes == {0, 2048}
WsClients == {1, 2}
\* The one whose connection the detection engine's scenario follows.
Subscribers == {1}

\* ------------------------------------------------- sliding-window counter
\* SlidingWindowCounter.__init__
NewCounter(window_seconds) == [window |-> window_seconds, events |-> <<>>]

\* _prune with <= for <: an event exactly window seconds old is dropped.
RECURSIVE PruneEventsInclusive(_, _)
PruneEventsInclusive(events, cutoff) ==
    IF events # <<>> /\ Head(events) <= cutoff
    THEN PruneEventsInclusive(Tail(events), cutoff)
    ELSE events

\* The loop of _prune: pop from the left while the head is older than cutoff.
RECURSIVE PruneEvents(_, _)
PruneEvents(events, cutoff) ==
    IF events # <<>> /\ Head(events) < cutoff
    THEN PruneEvents(Tail(events), cutoff)
    ELSE events

\* SlidingWindowCounter._prune at time now
CounterPrune(c, now) == [c EXCEPT !.events = PruneEvents(c.events, now - c.window)]
\* SlidingWindowCounter.add at time now
CounterAdd(c, now) == CounterPrune([c EXCEPT !.events = Append(c.events, now)], now)
\* SlidingWindowCounter.count at time now: the counter it leaves, and the length
CounterCount(c, now) == Len(CounterPrune(c, now).events)

\* The pruning loops over (timestamp, bytes) samples of on_modified and of
\* process_monitor_loop.
RECURSIVE PruneSamples(_, _)
PruneSamples(samples, cutoff) ==
    IF samples # <<>> /\ Head(samples)[1] < cutoff
    THEN PruneSamples(Tail(samples), cutoff)
    ELSE samples

\* deque(maxlen=200).append
RecentAppend(log, p) ==
    IF Len(log) >= RecentMaxLen THEN Append(Tail(log), p) ELSE Append(log, p)

\* list(dq)[:n]
Prefix(s, n) == SubSeq(s, 1, IF Len(s) < n THEN Len(s) ELSE n)

\* A handler without the test of the path
InSandboxAnywhere(p) == TRUE

\* SANDBOX_DIR in path.parents or path == SANDBOX_DIR
InSandbox(p) == p \in InsidePaths

\* ---------------------------------------------------------------- detectors
CfgInt(cfg, k) == RTrunc(cfg[k].v)

\* A file-rate score without the cap at 1.0
detect_file_rate_scoreUncapped(cnt, cfg) ==
    RDiv(RInt(cnt), RMax(One, cfg["FILES_MODIFIED_THRESHOLD"].v))

\* detect_file_rate_score, given count()
detect_file_rate_score(cnt, cfg) ==
    RMin(One, RDiv(RInt(cnt), RMax(One, cfg["FILES_MODIFIED_THRESHOLD"].v)))

RECURSIVE SumSeq(_)
SumSeq(s) == IF s = <<>> THEN 0 ELSE Head(s) + SumSeq(Tail(s))

\* detect_bytes_written_score, given the total its iteration summed
detect_bytes_written_score(total, cfg) ==
    RMin(One, RDiv(RInt(total), RMax(One, cfg["BYTES_WRITTEN_THRESHOLD"].v)))

\* detect_rename_score, given count()
detect_rename_score(cnt, cfg) ==
    RMin(One, RDiv(RInt(cnt), RMax(One, cfg["RENAMES_THRESHOLD"].v)))

\* detect_ransom_note_score
detect_ransom_note_score(log, files) ==
    IF \E i \in 1..Len(log) : files[log[i]] # "none" /\ log[i] \in RansomNamed
    THEN One ELSE Zero

\* The scores list of detect_entropy_score: one entry per sampled file that opens.
RECURSIVE EntropyScores(_, _, _)
EntropyScores(sampled, files, thr) ==
    IF sampled = <<>> THEN <<>>
    ELSE IF files[Head(sampled)] = "none"
         THEN EntropyScores(Tail(sampled), files, thr)
         ELSE <<RMin(One, RDiv(FileEntropy(files[Head(sampled)]),
                               RMax(Rat(1, 1000), thr)))>>
              \o EntropyScores(Tail(sampled), files, thr)

RECURSIVE RSum(_)
RSum(s) == IF s = <<>> THEN Zero ELSE RAdd(Head(s), RSum(Tail(s)))

RECURSIVE RMaxSeq(_)
RMaxSeq(s) == IF Len(s) = 1 THEN s[1] ELSE RMax(Head(s), RMaxSeq(Tail(s)))

\* detect_entropy_score
detect_entropy_score(log, files, cfg) ==
    LET scores == EntropyScores(Prefix(log, EntropySampleLimit), files,
                                cfg["ENTROPY_THRESHOLD"].v)
    IN  IF scores = <<>> THEN Zero ELSE RDiv(RSum(scores), RInt(Len(scores)))

\* The scores list of detect_proc_behavior_score, over the pids in pidseq.
RECURSIVE ProcScores(_, _, _)
ProcScores(pidseq, pw, thr) ==
    IF pidseq = <<>> THEN <<>>
    ELSE LET dq == pw[Head(pidseq)]
             s == RMin(One, RDiv(RInt(dq[Len(dq)][2] - dq[1][2]), RMax(One, thr)))
         IN  (IF Len(dq) >= 2 /\ RLess(Rat(1, 10), s) THEN <<s>> ELSE <<>>)
             \o ProcScores(Tail(pidseq), pw, thr)

RECURSIVE SetToSeq(_)
SetToSeq(S) ==
    IF S = {} THEN <<>>
    ELSE LET x == CHOOSE y \in S : \A z \in S : y <= z
         IN  <<x>> \o SetToSeq(S \ {x})

\* detect_proc_behavior_score
detect_proc_behavior_score(pw, cfg) ==
    LET scores == ProcScores(SetToSeq(DOMAIN pw), pw,
                             RDiv(cfg["BYTES_WRITTEN_THRESHOLD"].v, RInt(10)))
    IN  IF scores = <<>> THEN Zero ELSE RMaxSeq(scores)

\* What ml_model.decision_function does when it is called: it raises, or it
\* returns a raw score.  With no model it is not called.
MlOutcomes(model) ==
    IF model = "none"
    THEN {[raises |-> FALSE, raw |-> Zero]}
    ELSE {[raises |-> TRUE, raw |-> Zero]}
         \cup {[raises |-> FALSE, raw |-> RInt(r)] : r \in {-20, -5, 1}}

\* detect_ml_score, given what decision_function returned
detect_ml_score(model, out) ==
    IF model = "none" THEN Zero
    ELSE IF RLess(out.raw, Zero)
         THEN RMin(One, RDiv(RMul(RInt(-1), out.raw), RInt(10)))
         ELSE Zero

\* The detectors dict's keys, in its order.
DetectorOrder ==
    <<"file_rate", "bytes_written", "rename_spike", "ransom_note", "entropy",
      "proc_behavior", "ml_score">>

\* A fusion that returns the weighted sum undivided
FuseUnnormalized(detectors) ==
    RSum([i \in 1..Len(DetectorOrder) |->
            RMul(WEIGHTS[DetectorOrder[i]], detectors[DetectorOrder[i]])])

\* The weighted sum and the fusion of compute_confidence.
Fuse(detectors) ==
    LET names == DetectorOrder
        weighted == RSum([i \in 1..Len(names) |->
                            RMul(WEIGHTS[names[i]], detectors[names[i]])])
        weight_sum == RSum([i \in 1..Len(names) |-> WEIGHTS[names[i]]])
    IN  RDiv(weighted, weight_sum)

\* -------------------------------------------------------------------- state
VARIABLES
    clock,                  \* datetime.utcnow() / time.time(), in seconds
    runtime_config,
    file_mod_counter,
    rename_counter,
    bytes_written_window,   \* deque of <<timestamp, bytes>>
    recent_modified_files,  \* deque(maxlen=200) of paths
    proc_writes,            \* pid -> deque of <<timestamp, write_bytes>>
    active_connections,     \* manager.active_connections
    files,                  \* SANDBOX_DIR: path -> content class or "none"
    backups,                \* BACKUP_DIR: the artifacts written
    quarantine,             \* QUARANTINE_DIR: the copies made
    inbox,                  \* per WebSocket client, the alerts it was sent
    handler,                \* the watchdog thread inside SandboxHandler
    agent,                  \* the main thread inside agent_loop
    api,                    \* the event loop inside set_rates / status
    iters,                  \* the live iterators over bytes_written_window
    response,               \* the last HTTP response
    cyc,                    \* what the current detection cycle has done
    recorded,               \* every timestamp add() of the counter under test took
    used,                   \* how much of each bound the run has used
    ml_model,               \* the module's ml_model: "none" or a scorer
    running,                \* the pids psutil.process_iter yields
    process                 \* the interrupt, the observer, stop_event and pm_thread

vars ==
    <<clock, runtime_config, file_mod_counter, rename_counter, bytes_written_window,
      recent_modified_files, proc_writes, active_connections, files, backups,
      quarantine, inbox, handler, agent, api, iters, response, cyc, recorded, used,
      ml_model, running, process>>

host == <<ml_model, running, process>>

shared ==
    <<runtime_config, file_mod_counter, rename_counter, bytes_written_window,
      recent_modified_files, proc_writes, active_connections>>
disk == <<files, backups, quarantine>>

NoIter == [active |-> FALSE, pos |-> 0, total |-> 0, dirty |-> FALSE]
NoDetectors == [k \in DetectorNames |-> Zero]
NoAlert == [id |-> 0, timestamp |-> 0, confidence |-> Zero,
            detectors |-> NoDetectors, snapshots |-> <<>>]
AgentLocals ==
    [pc |-> "eval", file_rate |-> Zero, confidence |-> Zero,
     detectors |-> NoDetectors, todo |-> <<>>, snap_list |-> <<>>,
     alert |-> NoAlert, target |-> "", copied |-> -1, living |-> <<>>]
ApiLocals == [pc |-> "idle", payload |-> <<>>, updated |-> <<>>, file_rate |-> Zero,
              before |-> <<>>]
\* A response: its status code and body, and (for reference) the runtime_config
\* the request found.
NoResponse == [code |-> 0, error |-> "", key |-> "", updated |-> <<>>,
               confidence |-> Zero, detectors |-> NoDetectors, before |-> <<>>]
\* The record of a cycle: the branch taken, the length of the list the snapshot
\* loop was given, the outcome of each snapshot, quarantine and notification
\* attempted, how many alerts were built, broadcasts run and clears done, and
\* what became of the scorer's call.
NewCycle == [branch |-> "none", planned |-> 0, snapshots |-> <<>>,
             quarantines |-> <<>>, notified |-> <<>>, built |-> 0,
             broadcasts |-> 0, cleared |-> 0, scorer |-> "none"]
NoneUsed == [events |-> 0, samples |-> 0, fsops |-> 0, requests |-> 0,
             cycles |-> 0, adds |-> 0]

\* The threads agent_loop and __main__ start, and the signal not yet delivered.
Started == [sigint |-> FALSE, observer |-> "started", stop_event |-> FALSE,
            pm_thread |-> "started"]

\* The module's state once loaded, with ml_model as given, and after the
\* creation events of log (none at startup) have been handled.
InitState(model, log) ==
    /\ clock = 0
    /\ runtime_config = InitConfig
    /\ file_mod_counter =
          [NewCounter(CfgInt(InitConfig, "TIME_WINDOW_SECONDS"))
              EXCEPT !.events = [i \in 1..Len(log) |-> 0]]
    /\ rename_counter = NewCounter(CfgInt(InitConfig, "TIME_WINDOW_SECONDS"))
    /\ bytes_written_window = <<>>
    /\ recent_modified_files = log
    /\ proc_writes = [pid \in Pids |-> <<>>]
    /\ active_connections = <<>>
    /\ files = [p \in InsidePaths |-> "none"]
    /\ backups = {}
    /\ quarantine = {}
    /\ inbox = [c \in WsClients |-> <<>>]
    /\ handler = [pc |-> "idle", path |-> ""]
    /\ agent = AgentLocals
    /\ api = ApiLocals
    /\ iters = [agent |-> NoIter, status |-> NoIter]
    /\ response = NoResponse
    /\ cyc = NewCycle
    /\ recorded = <<>>
    /\ used = NoneUsed
    /\ ml_model = model
    /\ running = Pids
    /\ process = Started

Init == InitState("none", <<>>)

\* The process is alive until the main thread ends, on an exception that leaves
\* agent_loop or after the interrupt: the other threads are daemons.
Alive == agent.pc \notin {"crashed", "exited"}

\* A mutation of bytes_written_window changes the deque's state counter: every
\* iterator created before it raises at its next step.
Mutated(its) ==
    [t \in DOMAIN its |-> IF its[t].active THEN [its[t] EXCEPT !.dirty = TRUE] ELSE its[t]]

\* ------------------------------------------------------------------- clock
Tick ==
    /\ Alive
    /\ clock < MaxClock
    /\ clock' = clock + 1
    /\ UNCHANGED <<shared, disk, inbox, handler, agent, api, iters, response, cyc,
                   recorded, used, host>>

\* ------------------------------------------- the monitored tree's writers
\* Another process writes, creates or deletes a file of the sandbox.
EnvWrite(p, c) ==
    /\ Alive
    /\ used.fsops < MaxFsOps
    /\ files[p] # c
    /\ files' = [files EXCEPT ![p] = c]
    /\ used' = [used EXCEPT !.fsops = @ + 1]
    /\ UNCHANGED <<clock, shared, backups, quarantine, inbox, handler, agent, api,
                   iters, response, cyc, recorded, host>>

\* ------------------------------------------------------ SandboxHandler
\* on_modified up to recent_modified_files.append(path)
OnModified(p, is_directory) ==
    /\ Alive
    /\ handler.pc = "idle"
    /\ process.observer = "started"
    /\ used.events < MaxEvents
    /\ IF is_directory \/ ~InSandbox(p)
       THEN UNCHANGED <<file_mod_counter, recent_modified_files, handler, used>>
       ELSE /\ file_mod_counter' = CounterAdd(file_mod_counter, clock)
            /\ recent_modified_files' = RecentAppend(recent_modified_files, p)
            /\ handler' = [pc |-> "stat", path |-> p]
            /\ used' = [used EXCEPT !.events = @ + 1]
    /\ UNCHANGED <<clock, runtime_config, rename_counter, bytes_written_window,
                   proc_writes, active_connections, disk, inbox, agent, api, iters,
                   response, cyc, recorded, host>>

\* on_modified from path.stat() to the end: the sample and the pruning
OnModifiedSample(stat_fails) ==
    /\ Alive
    /\ handler.pc = "stat"
    /\ LET size == IF stat_fails \/ files[handler.path] = "none"
                   THEN 0 ELSE FileSize(files[handler.path])
           cutoff == clock - CfgInt(runtime_config, "TIME_WINDOW_SECONDS")
       IN  bytes_written_window' =
               PruneSamples(Append(bytes_written_window, <<clock, size>>), cutoff)
    /\ iters' = Mutated(iters)
    /\ handler' = [pc |-> "idle", path |-> ""]
    /\ UNCHANGED <<clock, runtime_config, file_mod_counter, rename_counter,
                   recent_modified_files, proc_writes, active_connections, disk,
                   inbox, agent, api, response, cyc, recorded, used, host>>

OnCreated(p, is_directory) ==
    /\ Alive
    /\ handler.pc = "idle"
    /\ process.observer = "started"
    /\ used.events < MaxEvents
    /\ IF is_directory \/ ~InSandbox(p)
       THEN UNCHANGED <<file_mod_counter, recent_modified_files, used>>
       ELSE /\ file_mod_counter' = CounterAdd(file_mod_counter, clock)
            /\ recent_modified_files' = RecentAppend(recent_modified_files, p)
            /\ used' = [used EXCEPT !.events = @ + 1]
    /\ UNCHANGED <<clock, runtime_config, rename_counter, bytes_written_window,
                   proc_writes, active_connections, disk, inbox, handler, agent, api,
                   iters, response, cyc, recorded, host>>

OnMoved(dst) ==
    /\ Alive
    /\ handler.pc = "idle"
    /\ process.observer = "started"
    /\ used.events < MaxEvents
    /\ IF ~InSandbox(dst)
       THEN UNCHANGED <<rename_counter, used>>
       ELSE /\ rename_counter' = CounterAdd(rename_counter, clock)
            /\ used' = [used EXCEPT !.events = @ + 1]
    /\ UNCHANGED <<clock, runtime_config, file_mod_counter, bytes_written_window,
                   recent_modified_files, proc_writes, active_connections, disk,
                   inbox, handler, agent, api, iters, response, cyc, recorded, host>>

\* ------------------------------------------------- process_monitor_loop
\* One process of psutil.process_iter: the body of the for loop.
SampleProcess(pid, whitelisted, writes) ==
    /\ Alive
    /\ process.pm_thread = "started"
    /\ pid \in running
    /\ used.samples < MaxSamples
    /\ IF whitelisted
       THEN UNCHANGED <<proc_writes, used>>
       ELSE LET cutoff == clock - CfgInt(runtime_config, "TIME_WINDOW_SECONDS") IN
            /\ proc_writes' =
                    [proc_writes EXCEPT ![pid] =
                        PruneSamples(Append(@, <<clock, writes>>), cutoff)]
            /\ used' = [used EXCEPT !.samples = @ + 1]
    /\ UNCHANGED <<clock, runtime_config, file_mod_counter, rename_counter,
                   bytes_written_window, recent_modified_files, active_connections,
                   disk, inbox, handler, agent, api, iters, response, cyc, recorded, host>>

\* A sampled process ends: psutil.process_iter yields it no more.
ProcExit(pid) ==
    /\ Alive
    /\ pid \in running
    /\ running' = running \ {pid}
    /\ UNCHANGED <<clock, runtime_config, file_mod_counter, rename_counter,
                   bytes_written_window, recent_modified_files, proc_writes,
                   active_connections, disk, inbox, handler, agent, api, iters,
                   response, cyc, recorded, used, ml_model, process>>

\* ------------------------------------------------------ compute_confidence
\* The detectors dict once the bytes iteration has summed total: the other six
\* detectors, of which detect_rename_score prunes rename_counter.
Detectors(file_rate, total, out) ==
    [k \in DetectorNames |->
        CASE k = "file_rate" -> file_rate
          [] k = "bytes_written" -> detect_bytes_written_score(total, runtime_config)
          [] k = "rename_spike" ->
                detect_rename_score(CounterCount(rename_counter, clock), runtime_config)
          [] k = "ransom_note" -> detect_ransom_note_score(recent_modified_files, files)
          [] k = "entropy" ->
                detect_entropy_score(recent_modified_files, files, runtime_config)
          [] k = "proc_behavior" -> detect_proc_behavior_score(proc_writes, runtime_config)
          [] OTHER -> detect_ml_score(ml_model, out)]

\* ---------------------------------------------------------------- agent_loop
AgentFrame ==
    UNCHANGED <<clock, runtime_config, bytes_written_window, proc_writes, inbox,
                handler, api, response, recorded, host>>

\* The loop's test, then compute_confidence up to the iterator that
\* detect_bytes_written_score's sum() creates.
AgentEvalBegin ==
    /\ agent.pc = "eval"
    /\ used.cycles < MaxCycles
    /\ used' = [used EXCEPT !.cycles = @ + 1]
    /\ file_mod_counter' = CounterPrune(file_mod_counter, clock)
    /\ agent' = [agent EXCEPT !.pc = "bytes",
                   !.file_rate = detect_file_rate_score(
                                    CounterCount(file_mod_counter, clock), runtime_config)]
    /\ iters' = [iters EXCEPT !.agent = [NoIter EXCEPT !.active = TRUE]]
    /\ AgentFrame
    /\ UNCHANGED <<rename_counter, recent_modified_files, active_connections, disk,
                   cyc>>

\* One next() of that iterator; at its end, the rest of compute_confidence.
AgentBytesNext ==
    /\ agent.pc = "bytes"
    /\ LET it == iters.agent IN
       IF it.dirty
       THEN \* RuntimeError: deque mutated during iteration
            /\ agent' = [AgentLocals EXCEPT !.pc = "crashed"]
            /\ iters' = [iters EXCEPT !.agent = NoIter]
            /\ UNCHANGED rename_counter
       ELSE IF it.pos < Len(bytes_written_window)
       THEN /\ iters' = [iters EXCEPT !.agent.pos = @ + 1,
                           !.agent.total = @ + bytes_written_window[it.pos + 1][2]]
            /\ UNCHANGED <<agent, rename_counter>>
       ELSE \E out \in MlOutcomes(ml_model) :
            LET detectors == Detectors(agent.file_rate, it.total, out) IN
            /\ rename_counter' = CounterPrune(rename_counter, clock)
            /\ iters' = [iters EXCEPT !.agent = NoIter]
            /\ IF out.raises
               THEN \* nothing between decision_function and __main__ catches it
                    agent' = [AgentLocals EXCEPT !.pc = "crashed"]
               ELSE agent' = [agent EXCEPT !.pc = "decide", !.detectors = detectors,
                                !.confidence = Fuse(detectors)]
    /\ cyc' = [cyc EXCEPT !.scorer =
                 IF iters.agent.dirty \/ iters.agent.pos < Len(bytes_written_window)
                    \/ ml_model = "none"
                 THEN @
                 ELSE IF agent'.pc = "crashed" THEN "raised" ELSE "scored"]
    /\ AgentFrame
    /\ UNCHANGED <<file_mod_counter, recent_modified_files, active_connections, disk,
                   used>>

\* The if / elif / else on the confidence; on the action branch, the head of
\* snapshot_and_alert: list(recent_modified_files)[:20].
AgentDecide ==
    /\ agent.pc = "decide"
    /\ IF RLeq(runtime_config["CONFIDENCE_ACTION_THRESHOLD"].v, agent.confidence)
       THEN /\ agent' = [agent EXCEPT !.pc = "snapshot", !.snap_list = <<>>,
                           !.todo = Prefix(recent_modified_files, SnapshotLimit)]
            /\ cyc' = [cyc EXCEPT !.branch = "action",
                         !.planned = Len(Prefix(recent_modified_files, SnapshotLimit))]
       ELSE /\ agent' = [agent EXCEPT !.pc = "sleep"]
            /\ cyc' = [cyc EXCEPT !.branch =
                         IF RLeq(runtime_config["CONFIDENCE_WARN_THRESHOLD"].v,
                                 agent.confidence)
                         THEN "warn" ELSE "info"]
    /\ AgentFrame
    /\ UNCHANGED <<file_mod_counter, rename_counter, recent_modified_files,
                   active_connections, disk, iters, used>>

\* str(dest) in snapshot_and_alert, where dest is what encrypt_and_store returned:
\* None, as the function has no return statement. A string is the tuple of its
\* parts.
StrNone == <<"None">>

\* A snapshot loop whose first failure ends the loop
AgentSnapshotFileAborting(io_ok) ==
    /\ agent.pc = "snapshot"
    /\ agent.todo # <<>>
    /\ LET p == Head(agent.todo) IN
       IF io_ok /\ files[p] # "none"
       THEN /\ backups' = backups \cup {[name |-> p, stamp |-> clock, content |-> files[p]]}
            /\ agent' = [agent EXCEPT !.todo = Tail(@),
                           !.snap_list = Append(@, StrNone)]
       ELSE /\ agent' = [agent EXCEPT !.todo = <<>>]
            /\ UNCHANGED backups
    /\ cyc' = [cyc EXCEPT !.snapshots = Append(@, io_ok /\ files[Head(agent.todo)] # "none")]
    /\ AgentFrame
    /\ UNCHANGED <<file_mod_counter, rename_counter, recent_modified_files,
                   active_connections, files, quarantine, iters, used>>

\* One file of the snapshot loop: encrypt_and_store raises (io_ok is false, or
\* there is no such file) or writes the artifact and returns None.
AgentSnapshotFile(io_ok) ==
    /\ agent.pc = "snapshot"
    /\ agent.todo # <<>>
    /\ LET p == Head(agent.todo) IN
       IF io_ok /\ files[p] # "none"
       THEN /\ backups' = backups \cup {[name |-> p, stamp |-> clock, content |-> files[p]]}
            /\ agent' = [agent EXCEPT !.todo = Tail(@),
                           !.snap_list = Append(@, StrNone)]
       ELSE /\ agent' = [agent EXCEPT !.todo = Tail(@)]
            /\ UNCHANGED backups
    /\ cyc' = [cyc EXCEPT !.snapshots = Append(@, io_ok /\ files[Head(agent.todo)] # "none")]
    /\ AgentFrame
    /\ UNCHANGED <<file_mod_counter, rename_counter, recent_modified_files,
                   active_connections, files, quarantine, iters, used>>

\* The alert dict of snapshot_and_alert.
AgentBuildAlert ==
    /\ agent.pc = "snapshot"
    /\ agent.todo = <<>>
    /\ agent' = [agent EXCEPT !.pc = "quarantine",
                   !.alert = [id |-> used.cycles, timestamp |-> clock,
                              confidence |-> agent.confidence,
                              detectors |-> agent.detectors,
                              snapshots |-> agent.snap_list]]
    /\ cyc' = [cyc EXCEPT !.built = @ + 1]
    /\ AgentFrame
    /\ UNCHANGED <<file_mod_counter, rename_counter, recent_modified_files,
                   active_connections, disk, iters, used>>

\* A move_to_quarantine that goes on to unlink whatever copy2 did
AgentQuarantineCopyUnchecked(io_ok) ==
    /\ agent.pc = "quarantine"
    /\ IF recent_modified_files = <<>>
       THEN /\ agent' = [agent EXCEPT !.pc = "notify"]
            /\ UNCHANGED <<quarantine, cyc>>
       ELSE LET target == recent_modified_files[Len(recent_modified_files)] IN
            /\ cyc' = [cyc EXCEPT !.quarantines =
                         Append(@, io_ok /\ files[target] # "none")]
            /\ quarantine' = IF io_ok /\ files[target] # "none"
                             THEN quarantine \cup {[name |-> target, stamp |-> clock,
                                                    content |-> files[target]]}
                             ELSE quarantine
            /\ agent' = [agent EXCEPT !.pc = "unlink", !.target = target,
                           !.copied = FileSize(files[target])]
    /\ AgentFrame
    /\ UNCHANGED <<file_mod_counter, rename_counter, recent_modified_files,
                   active_connections, files, backups, iters, used>>

\* move_to_quarantine up to shutil.copy2, called on recent_modified_files[-1].
AgentQuarantineCopy(io_ok) ==
    /\ agent.pc = "quarantine"
    /\ IF recent_modified_files = <<>>
       THEN /\ agent' = [agent EXCEPT !.pc = "notify"]
            /\ UNCHANGED <<quarantine, cyc>>
       ELSE LET target == recent_modified_files[Len(recent_modified_files)] IN
            /\ cyc' = [cyc EXCEPT !.quarantines =
                         Append(@, io_ok /\ files[target] # "none")]
            /\ IF io_ok /\ files[target] # "none"
               THEN /\ quarantine' = quarantine \cup
                          {[name |-> target, stamp |-> clock, content |-> files[target]]}
                    /\ agent' = [agent EXCEPT !.pc = "unlink", !.target = target,
                                   !.copied = FileSize(files[target])]
               ELSE /\ agent' = [agent EXCEPT !.pc = "notify"]
                    /\ UNCHANGED quarantine
    /\ AgentFrame
    /\ UNCHANGED <<file_mod_counter, rename_counter, recent_modified_files,
                   active_connections, files, backups, iters, used>>

\* path.unlink(missing_ok=True) of move_to_quarantine.
AgentQuarantineUnlink(io_ok) ==
    /\ agent.pc = "unlink"
    /\ files' = IF io_ok THEN [files EXCEPT ![agent.target] = "none"] ELSE files
    /\ agent' = [agent EXCEPT !.pc = "notify", !.target = "", !.copied = -1]
    /\ AgentFrame
    /\ UNCHANGED <<file_mod_counter, rename_counter, recent_modified_files,
                   active_connections, backups, quarantine, iters, cyc, used>>

\* send_desktop_notification, the return of the alert, and the head of
\* manager.broadcast: list(self.active_connections).
AgentNotify(notify_ok) ==
    /\ agent.pc = "notify"
    /\ agent' = [agent EXCEPT !.pc = "broadcast", !.todo = active_connections,
                   !.living = <<>>]
    /\ cyc' = [cyc EXCEPT !.notified = Append(@, notify_ok)]
    /\ AgentFrame
    /\ UNCHANGED <<file_mod_counter, rename_counter, recent_modified_files,
                   active_connections, disk, iters, used>>

\* A send that puts the message ahead of those the client has not yet read
AgentBroadcastSendOutOfOrder(send_ok) ==
    /\ agent.pc = "broadcast"
    /\ agent.todo # <<>>
    /\ LET conn == Head(agent.todo) IN
       IF send_ok
       THEN /\ inbox' = [inbox EXCEPT ![conn] = <<agent.alert.id>> \o @]
            /\ agent' = [agent EXCEPT !.todo = Tail(@), !.living = Append(@, conn)]
       ELSE /\ agent' = [agent EXCEPT !.todo = Tail(@)]
            /\ UNCHANGED inbox
    /\ UNCHANGED <<clock, shared, disk, handler, api, iters, response, cyc, recorded,
                   used, host>>

\* A broadcast that gives up at the first send that fails
AgentBroadcastSendAborting(send_ok) ==
    /\ agent.pc = "broadcast"
    /\ agent.todo # <<>>
    /\ LET conn == Head(agent.todo) IN
       IF send_ok
       THEN /\ inbox' = [inbox EXCEPT ![conn] = Append(@, agent.alert.id)]
            /\ agent' = [agent EXCEPT !.todo = Tail(@), !.living = Append(@, conn)]
       ELSE /\ agent' = [agent EXCEPT !.todo = <<>>]
            /\ UNCHANGED inbox
    /\ UNCHANGED <<clock, shared, disk, handler, api, iters, response, cyc, recorded,
                   used, host>>

\* One connection of manager.broadcast's loop: send_json, or close on failure.
AgentBroadcastSend(send_ok) ==
    /\ agent.pc = "broadcast"
    /\ agent.todo # <<>>
    /\ LET conn == Head(agent.todo) IN
       IF send_ok
       THEN /\ inbox' = [inbox EXCEPT ![conn] = Append(@, agent.alert.id)]
            /\ agent' = [agent EXCEPT !.todo = Tail(@), !.living = Append(@, conn)]
       ELSE /\ agent' = [agent EXCEPT !.todo = Tail(@)]
            /\ UNCHANGED inbox
    /\ UNCHANGED <<clock, shared, disk, handler, api, iters, response, cyc, recorded,
                   used, host>>

\* self.active_connections = living
AgentBroadcastEnd ==
    /\ agent.pc = "broadcast"
    /\ agent.todo = <<>>
    /\ active_connections' = agent.living
    /\ agent' = [agent EXCEPT !.pc = "clear", !.living = <<>>]
    /\ cyc' = [cyc EXCEPT !.broadcasts = @ + 1]
    /\ AgentFrame
    /\ UNCHANGED <<file_mod_counter, rename_counter, recent_modified_files, disk,
                   iters, used>>

\* agent_loop without its recent_modified_files.clear()
AgentClearSkipped ==
    /\ agent.pc = "clear"
    /\ agent' = [agent EXCEPT !.pc = "sleep"]
    /\ cyc' = [cyc EXCEPT !.cleared = @ + 1]
    /\ AgentFrame
    /\ UNCHANGED <<file_mod_counter, rename_counter, recent_modified_files,
                   active_connections, disk, iters, used>>

\* recent_modified_files.clear()
AgentClear ==
    /\ agent.pc = "clear"
    /\ recent_modified_files' = <<>>
    /\ agent' = [agent EXCEPT !.pc = "sleep"]
    /\ cyc' = [cyc EXCEPT !.cleared = @ + 1]
    /\ AgentFrame
    /\ UNCHANGED <<file_mod_counter, rename_counter, active_connections, disk, iters,
                   used>>

\* time.sleep(2) and the return to the loop's test
AgentSleep ==
    /\ agent.pc = "sleep"
    /\ agent' = AgentLocals
    /\ cyc' = NewCycle
    /\ AgentFrame
    /\ UNCHANGED <<file_mod_counter, rename_counter, recent_modified_files,
                   active_connections, disk, iters, used>>

\* ---------------------------------------------------------- JSON and types
\* A JSON value of a request body.  A string is given by what it spells: an
\* integer literal, a float literal, or neither.
JInt(n) == [ty |-> "int", v |-> RInt(n), lit |-> ""]
JFloat(x) == [ty |-> "float", v |-> x, lit |-> ""]
JBool(b) == [ty |-> "bool", v |-> IF b THEN One ELSE Zero, lit |-> ""]
JNull == [ty |-> "null", v |-> Zero, lit |-> ""]
JStr(lit, x) == [ty |-> "str", v |-> x, lit |-> lit]

\* int(v): [ok |-> FALSE] stands for the ValueError or TypeError.
IntOf(val) ==
    CASE val.ty \in {"int", "bool"} -> [ok |-> TRUE, val |-> [ty |-> "int", v |-> val.v]]
      [] val.ty = "float" -> [ok |-> TRUE, val |-> PyInt(RTrunc(val.v))]
      [] val.ty = "str" /\ val.lit = "int" -> [ok |-> TRUE, val |-> [ty |-> "int", v |-> val.v]]
      [] OTHER -> [ok |-> FALSE, val |-> PyInt(0)]

\* float(v)
FloatOf(val) ==
    CASE val.ty \in {"int", "bool", "float"} -> [ok |-> TRUE, val |-> PyFloat(val.v)]
      [] val.ty = "str" /\ val.lit \in {"int", "float"} -> [ok |-> TRUE, val |-> PyFloat(val.v)]
      [] OTHER -> [ok |-> FALSE, val |-> PyFloat(Zero)]

\* runtime_config[k] = v, without the conversion to the key's type
CoerceUnconverted(current, val) ==
    [ok |-> val.ty # "null", val |-> [ty |-> val.ty, v |-> val.v]]

\* type(runtime_config[k])(v)
Coerce(current, val) == IF current.ty = "int" THEN IntOf(val) ELSE FloatOf(val)

\* The keys of the updated dict.
UpdatedKeys(updated) == {updated[i][1] : i \in 1..Len(updated)}

\* Request bodies: sequences of <<key, value>> with distinct keys, in the order
\* of payload.items().
WindowPayloads ==
    {<<<<"TIME_WINDOW_SECONDS", JInt(1)>>>>,
     <<<<"TIME_WINDOW_SECONDS", JInt(1)>>, <<"BOGUS", JInt(1)>>>>,
     <<<<"FILES_MODIFIED_THRESHOLD", JInt(1)>>>>}

PayloadKeys ==
    {"FILES_MODIFIED_THRESHOLD", "TIME_WINDOW_SECONDS", "CONFIDENCE_ACTION_THRESHOLD",
     "BOGUS"}
PayloadValues ==
    {JInt(60), JFloat(Rat(5, 2)), JStr("int", RInt(7)), JStr("float", Rat(3, 2)),
     JStr("bad", Zero), JBool(TRUE), JNull}
PayloadItems == PayloadKeys \X PayloadValues
AnyPayloads ==
    {<<i>> : i \in PayloadItems}
    \cup {pl \in {<<i, j>> : i \in PayloadItems, j \in PayloadItems} : pl[1][1] # pl[2][1]}

\* ------------------------------------------------------------- set_rates
ApiFrame ==
    UNCHANGED <<clock, bytes_written_window, recent_modified_files, proc_writes,
                active_connections, disk, inbox, handler, agent, cyc, recorded, host>>

\* payload = await request.json(): the coroutine starts on the event loop.
SetRatesBegin(payload, max) ==
    /\ Alive
    /\ api.pc = "idle"
    /\ used.requests < max
    /\ used' = [used EXCEPT !.requests = @ + 1]
    /\ api' = [ApiLocals EXCEPT !.pc = "set_loop", !.payload = payload,
                 !.before = runtime_config]
    /\ response' = NoResponse
    /\ ApiFrame
    /\ UNCHANGED <<runtime_config, file_mod_counter, rename_counter, iters>>

\* One pass of  for k, v in payload.items()
SetRatesKey ==
    /\ Alive
    /\ api.pc = "set_loop"
    /\ api.payload # <<>>
    /\ LET k == Head(api.payload)[1]
           v == Head(api.payload)[2]
       IN  IF k \in DOMAIN runtime_config
           THEN LET c == Coerce(runtime_config[k], v) IN
                IF c.ok
                THEN /\ runtime_config' = [runtime_config EXCEPT ![k] = c.val]
                     /\ api' = [api EXCEPT !.payload = Tail(@),
                                  !.updated = Append(@, <<k, c.val>>)]
                     /\ UNCHANGED response
                ELSE /\ response' = [NoResponse EXCEPT !.code = 400,
                                       !.error = "invalid value for", !.key = k,
                                       !.before = api.before]
                     /\ api' = ApiLocals
                     /\ UNCHANGED runtime_config
           ELSE /\ response' = [NoResponse EXCEPT !.code = 400, !.error = "unknown key",
                                  !.key = k, !.before = api.before]
                /\ api' = ApiLocals
                /\ UNCHANGED runtime_config
    /\ ApiFrame
    /\ UNCHANGED <<file_mod_counter, rename_counter, iters, used>>

\* After the loop, "TIME_WINDOW_SECONDS" in updated: the first assignment.
SetRatesSwapFile ==
    /\ Alive
    /\ api.pc = "set_loop"
    /\ api.payload = <<>>
    /\ "TIME_WINDOW_SECONDS" \in UpdatedKeys(api.updated)
    /\ file_mod_counter' = NewCounter(CfgInt(runtime_config, "TIME_WINDOW_SECONDS"))
    /\ api' = [api EXCEPT !.pc = "set_swap"]
    /\ ApiFrame
    /\ UNCHANGED <<runtime_config, rename_counter, iters, response, used>>

\* The second assignment, and the return.
SetRatesSwapRename ==
    /\ Alive
    /\ api.pc = "set_swap"
    /\ rename_counter' = NewCounter(CfgInt(runtime_config, "TIME_WINDOW_SECONDS"))
    /\ response' = [NoResponse EXCEPT !.code = 200, !.updated = api.updated,
                      !.before = api.before]
    /\ api' = ApiLocals
    /\ ApiFrame
    /\ UNCHANGED <<runtime_config, file_mod_counter, iters, used>>

\* After the loop, TIME_WINDOW_SECONDS not in updated: the return.
SetRatesReturn ==
    /\ Alive
    /\ api.pc = "set_loop"
    /\ api.payload = <<>>
    /\ "TIME_WINDOW_SECONDS" \notin UpdatedKeys(api.updated)
    /\ response' = [NoResponse EXCEPT !.code = 200, !.updated = api.updated,
                      !.before = api.before]
    /\ api' = ApiLocals
    /\ ApiFrame
    /\ UNCHANGED <<runtime_config, file_mod_counter, rename_counter, iters, used>>

\* ------------------------------------------------------------------ status
\* compute_confidence on the event loop, up to the bytes iterator.
StatusBegin ==
    /\ Alive
    /\ api.pc = "idle"
    /\ used.requests < MaxRequests
    /\ used' = [used EXCEPT !.requests = @ + 1]
    /\ file_mod_counter' = CounterPrune(file_mod_counter, clock)
    /\ api' = [ApiLocals EXCEPT !.pc = "status_bytes",
                 !.file_rate = detect_file_rate_score(
                                  CounterCount(file_mod_counter, clock), runtime_config)]
    /\ iters' = [iters EXCEPT !.status = [NoIter EXCEPT !.active = TRUE]]
    /\ response' = NoResponse
    /\ ApiFrame
    /\ UNCHANGED <<runtime_config, rename_counter>>

\* One next() of the iterator; at its end the rest of compute_confidence and
\* the response.  An exception leaves the handler: the server answers 500.
StatusBytesNext ==
    /\ Alive
    /\ api.pc = "status_bytes"
    /\ LET it == iters.status IN
       IF it.dirty
       THEN /\ response' = [NoResponse EXCEPT !.code = 500]
            /\ api' = ApiLocals
            /\ iters' = [iters EXCEPT !.status = NoIter]
            /\ UNCHANGED rename_counter
       ELSE IF it.pos < Len(bytes_written_window)
       THEN /\ iters' = [iters EXCEPT !.status.pos = @ + 1,
                           !.status.total = @ + bytes_written_window[it.pos + 1][2]]
            /\ UNCHANGED <<api, response, rename_counter>>
       ELSE \E out \in MlOutcomes(ml_model) :
            LET detectors == Detectors(api.file_rate, it.total, out) IN
            /\ rename_counter' = CounterPrune(rename_counter, clock)
            /\ response' = IF out.raises
                           THEN [NoResponse EXCEPT !.code = 500]
                           ELSE [NoResponse EXCEPT !.code = 200,
                                   !.confidence = Fuse(detectors),
                                   !.detectors = detectors]
            /\ api' = ApiLocals
            /\ iters' = [iters EXCEPT !.status = NoIter]
    /\ ApiFrame
    /\ UNCHANGED <<runtime_config, file_mod_counter, used>>

\* ---------------------------------------------------------------- /ws
\* ConnectionManager.connect
Connect(ws) ==
    /\ Alive
    /\ api.pc = "idle"
    /\ \A i \in 1..Len(active_connections) : active_connections[i] # ws
    /\ active_connections' = Append(active_connections, ws)
    /\ UNCHANGED <<clock, runtime_config, file_mod_counter, rename_counter,
                   bytes_written_window, recent_modified_files, proc_writes, disk,
                   inbox, handler, agent, api, iters, response, cyc, recorded, used, host>>

\* ConnectionManager.disconnect, on WebSocketDisconnect
Disconnect(ws) ==
    /\ Alive
    /\ api.pc = "idle"
    /\ \E i \in 1..Len(active_connections) : active_connections[i] = ws
    /\ active_connections' = SelectSeq(active_connections, LAMBDA c : c # ws)
    /\ UNCHANGED <<clock, runtime_config, file_mod_counter, rename_counter,
                   bytes_written_window, recent_modified_files, proc_writes, disk,
                   inbox, handler, agent, api, iters, response, cyc, recorded, used, host>>

\* --------------------------------------------------------------- shutdown
\* SIGINT: KeyboardInterrupt is raised in the main thread, wherever agent_loop
\* is; no handler inside the loop catches it (they catch Exception), so it
\* unwinds to agent_loop's finally.
InterruptSwallowed ==
    /\ Alive
    /\ ~process.sigint
    /\ agent.pc \notin {"finally", "except", "exiting"}
    /\ process' = [process EXCEPT !.sigint = TRUE]
    /\ UNCHANGED <<clock, shared, disk, inbox, handler, agent, api, iters, response,
                   cyc, recorded, used, ml_model, running>>

Interrupt ==
    /\ Alive
    /\ ~process.sigint
    /\ agent.pc \notin {"finally", "except", "exiting"}
    /\ process' = [process EXCEPT !.sigint = TRUE]
    /\ agent' = [AgentLocals EXCEPT !.pc = "finally"]
    /\ iters' = [iters EXCEPT !.agent = NoIter]
    /\ UNCHANGED <<clock, shared, disk, inbox, handler, api, response, cyc, recorded,
                   used, ml_model, running>>

\* finally: observer.stop(); observer.join(), which returns once the callback
\* being dispatched has returned.
AgentFinally ==
    /\ agent.pc = "finally"
    /\ handler.pc = "idle"
    /\ process' = [process EXCEPT !.observer = "stopped"]
    /\ agent' = [agent EXCEPT !.pc = "except"]
    /\ UNCHANGED <<clock, shared, disk, inbox, handler, api, iters, response, cyc,
                   recorded, used, ml_model, running>>

\* except KeyboardInterrupt: stop_event.set()
MainExcept ==
    /\ agent.pc = "except"
    /\ process' = [process EXCEPT !.stop_event = TRUE]
    /\ agent' = [agent EXCEPT !.pc = "exiting"]
    /\ UNCHANGED <<clock, shared, disk, inbox, handler, api, iters, response, cyc,
                   recorded, used, ml_model, running>>

\* The main thread ends; every other thread is a daemon, so the interpreter
\* exits and with it pm_thread, the API thread and the sockets it held.
MainExit ==
    /\ agent.pc = "exiting"
    /\ process' = [process EXCEPT !.pm_thread = "stopped"]
    /\ agent' = [agent EXCEPT !.pc = "exited"]
    /\ UNCHANGED <<clock, shared, disk, inbox, handler, api, iters, response, cyc,
                   recorded, used, ml_model, running>>

\* process_monitor_loop's test: while not stop_event.is_set()
PmThreadStop ==
    /\ Alive
    /\ process.pm_thread = "started"
    /\ process.stop_event
    /\ process' = [process EXCEPT !.pm_thread = "stopped"]
    /\ UNCHANGED <<clock, shared, disk, inbox, handler, agent, api, iters, response,
                   cyc, recorded, used, ml_model, running>>

MainShutdown == AgentFinally \/ MainExcept \/ MainExit

Agent ==
    /\ Alive
    /\ \/ AgentEvalBegin
       \/ AgentBytesNext
       \/ AgentDecide
       \/ \E io_ok \in BOOLEAN : AgentSnapshotFile(io_ok)
       \/ AgentBuildAlert
       \/ \E io_ok \in BOOLEAN : AgentQuarantineCopy(io_ok)
       \/ \E io_ok \in BOOLEAN : AgentQuarantineUnlink(io_ok)
       \/ \E notify_ok \in BOOLEAN : AgentNotify(notify_ok)
       \/ \E send_ok \in BOOLEAN : AgentBroadcastSend(send_ok)
       \/ AgentBroadcastEnd
       \/ AgentClear
       \/ AgentSleep

Sampler == \E pid \in Pids, wl \in BOOLEAN, w \in WriteBytes : SampleProcess(pid, wl, w)

Push == \E ws \in Subscribers : Connect(ws) \/ Disconnect(ws)

PushAll == \E ws \in WsClients : Connect(ws) \/ Disconnect(ws)

\* ------------------------------------------------------------ specifications
\* The detection-and-response engine: the writers of the monitored tree, the
\* filesystem handler, the detection loop with its action pipeline, and the
\* push subscribers.
EnvDetect == \E p \in PlainPaths, c \in Contents \cup {"none"} : EnvWrite(p, c)

HandlerDetect ==
    \/ \E p \in PlainPaths \cup OutsidePaths, d \in BOOLEAN : OnModified(p, d)
    \/ \E f \in BOOLEAN : OnModifiedSample(f)
    \/ \E p \in PlainPaths \cup OutsidePaths, d \in BOOLEAN : OnCreated(p, d)
    \/ \E p \in PlainPaths \cup OutsidePaths : OnMoved(p)

Next == EnvDetect \/ HandlerDetect \/ Agent \/ Push

Spec == Init /\ [][Next]_vars

\* The administrative interface beside the units that read what it writes:
\* set_rates and status on the event loop, the filesystem handler and the
\* process sampler in their threads, and the clock.
SetRatesSteps == SetRatesKey \/ SetRatesSwapFile \/ SetRatesSwapRename \/ SetRatesReturn

NextApi ==
    \/ Tick
    \/ HandlerDetect
    \/ Sampler
    \/ \E payload \in WindowPayloads : SetRatesBegin(payload, MaxRequests)
    \/ SetRatesSteps
    \/ StatusBegin
    \/ StatusBytesNext

SpecApi == Init /\ [][NextApi]_vars

\* set_rates alone, request after request, over every kind of JSON value.
NextConfig ==
    \/ \E payload \in AnyPayloads : SetRatesBegin(payload, MaxUpdates)
    \/ SetRatesSteps

SpecConfig == Init /\ [][NextConfig]_vars

\* One SlidingWindowCounter by itself: constructed with any window length, then
\* add(), count() and the passing of time in any order.
Windows == {-1, 0, 1, 2}

InitCounter ==
    /\ clock = 0
    /\ runtime_config = InitConfig
    /\ \E w \in Windows : file_mod_counter = NewCounter(w)
    /\ rename_counter = NewCounter(CfgInt(InitConfig, "TIME_WINDOW_SECONDS"))
    /\ bytes_written_window = <<>>
    /\ recent_modified_files = <<>>
    /\ proc_writes = [pid \in Pids |-> <<>>]
    /\ active_connections = <<>>
    /\ files = [p \in InsidePaths |-> "none"]
    /\ backups = {}
    /\ quarantine = {}
    /\ inbox = [c \in WsClients |-> <<>>]
    /\ handler = [pc |-> "idle", path |-> ""]
    /\ agent = AgentLocals
    /\ api = ApiLocals
    /\ iters = [agent |-> NoIter, status |-> NoIter]
    /\ response = NoResponse
    /\ cyc = NewCycle
    /\ recorded = <<>>
    /\ used = NoneUsed
    /\ ml_model = "none"
    /\ running = Pids
    /\ process = Started

CounterFrame ==
    UNCHANGED <<runtime_config, rename_counter, bytes_written_window,
                recent_modified_files, proc_writes, active_connections, disk, inbox,
                handler, agent, api, iters, response, cyc, host>>

\* counter.add()
CounterAddCall ==
    /\ used.adds < MaxAdds
    /\ file_mod_counter' = CounterAdd(file_mod_counter, clock)
    /\ recorded' = Append(recorded, clock)
    /\ used' = [used EXCEPT !.adds = @ + 1]
    /\ UNCHANGED clock
    /\ CounterFrame

\* counter.count()
CounterCountCall ==
    /\ file_mod_counter' = CounterPrune(file_mod_counter, clock)
    /\ UNCHANGED <<clock, recorded, used>>
    /\ CounterFrame

CounterTick ==
    /\ clock < MaxTicks
    /\ clock' = clock + 1
    /\ UNCHANGED <<file_mod_counter, recorded, used>>
    /\ CounterFrame

NextCounter == CounterAddCall \/ CounterCountCall \/ CounterTick

SpecCounter == InitCounter /\ [][NextCounter]_vars

\* The detection engine of Spec with a scorer in ml_model (detect_ml_score's
\* second half runs only then).
SpecMl == InitState("model", <<>>) /\ [][Next]_vars

\* The detection loop when renames are all that happens in the sandbox (the
\* log stays empty: nothing to snapshot or quarantine), with every client free
\* to connect and disconnect while alerts are broadcast.
AgentOnRenames ==
    /\ Alive
    /\ \/ AgentEvalBegin
       \/ AgentBytesNext
       \/ AgentDecide
       \/ AgentBuildAlert
       \/ \E io_ok \in BOOLEAN : AgentQuarantineCopy(io_ok)
       \/ \E notify_ok \in BOOLEAN : AgentNotify(notify_ok)
       \/ \E send_ok \in BOOLEAN : AgentBroadcastSend(send_ok)
       \/ AgentBroadcastEnd
       \/ AgentClear
       \/ AgentSleep

NextBroadcast ==
    \/ \E dst \in PlainPaths \cup OutsidePaths : OnMoved(dst)
    \/ AgentOnRenames
    \/ PushAll

SpecBroadcast == Init /\ [][NextBroadcast]_vars

\* The detection loop when the files the events name are gone by the time
\* they are looked at: no snapshot and no copy succeeds, so move_to_quarantine
\* never reaches its unlink.
AgentOnMissingFiles ==
    /\ Alive
    /\ \/ AgentEvalBegin
       \/ AgentBytesNext
       \/ AgentDecide
       \/ \E io_ok \in BOOLEAN : AgentSnapshotFile(io_ok)
       \/ AgentBuildAlert
       \/ \E io_ok \in BOOLEAN : AgentQuarantineCopy(io_ok)
       \/ \E notify_ok \in BOOLEAN : AgentNotify(notify_ok)
       \/ \E send_ok \in BOOLEAN : AgentBroadcastSend(send_ok)
       \/ AgentBroadcastEnd
       \/ AgentClear
       \/ AgentSleep

\* The three threads and the subscriber with the interrupt: SIGINT may arrive
\* at any point of agent_loop.  The main thread and the watchdog thread are
\* scheduled: a step of the shutdown path, or the end of a callback, that stays
\* possible is taken.
NextShutdown ==
    \/ \E p \in PlainPaths : OnModified(p, FALSE)
    \/ \E f \in BOOLEAN : OnModifiedSample(f)
    \/ AgentOnMissingFiles
    \/ Sampler
    \/ Push
    \/ Interrupt
    \/ MainShutdown
    \/ PmThreadStop

SpecShutdown ==
    /\ Init
    /\ [][NextShutdown]_vars
    /\ WF_vars(MainShutdown)
    /\ WF_vars(\E f \in BOOLEAN : OnModifiedSample(f))

\* The detectors under every threshold an update can set: set_rates with a
\* zero or a negative value for a threshold, the handler, the writers of the
\* tree and the sampler feeding the detectors' inputs, and status reading the
\* scores.
ThresholdKeys ==
    {"FILES_MODIFIED_THRESHOLD", "BYTES_WRITTEN_THRESHOLD", "RENAMES_THRESHOLD",
     "ENTROPY_THRESHOLD"}
ThresholdPayloads == {<<<<k, JInt(n)>>>> : k \in ThresholdKeys, n \in {0, -3}}

NextScores ==
    \/ EnvDetect
    \/ \E p \in PlainPaths : OnModified(p, FALSE)
    \/ \E f \in BOOLEAN : OnModifiedSample(f)
    \/ \E dst \in PlainPaths : OnMoved(dst)
    \/ Sampler
    \/ \E payload \in ThresholdPayloads : SetRatesBegin(payload, MaxRetunes)
    \/ SetRatesKey
    \/ SetRatesReturn
    \/ StatusBegin
    \/ StatusBytesNext

SpecScores == Init /\ [][NextScores]_vars

\* Status reads beside what changes under them: the clock, the files, modify
\* and rename events, and an update that shortens the window to one second.
ShortWindow == <<<<"TIME_WINDOW_SECONDS", JInt(1)>>>>

NextRead ==
    \/ Tick
    \/ EnvDetect
    \/ \E p \in PlainPaths : OnModified(p, FALSE)
    \/ \E f \in BOOLEAN : OnModifiedSample(f)
    \/ \E dst \in PlainPaths : OnMoved(dst)
    \/ SetRatesBegin(ShortWindow, MaxRetunes)
    \/ SetRatesKey
    \/ SetRatesSwapFile
    \/ SetRatesSwapRename
    \/ StatusBegin
    \/ StatusBytesNext

SpecRead == Init /\ [][NextRead]_vars

\* The detection engine on a monitored tree with history: SnapshotLimit
\* notes were created and deleted again within the window, so the log holds
\* their paths when the next events arrive.
OldLog == [i \in 1..SnapshotLimit |-> "README.txt"]

SpecLog == InitState("none", OldLog) /\ [][Next]_vars

\* The process sampler beside processes that end, the clock and status reads.
NextProc ==
    \/ Tick
    \/ Sampler
    \/ \E pid \in Pids : ProcExit(pid)
    \/ StatusBegin
    \/ StatusBytesNext

SpecProc == Init /\ [][NextProc]_vars

\* The detection engine when all filesystem events arrive before the first
\* evaluation and none afterwards; the clock advances and subscribers come
\* and go throughout.
Ingest == used.cycles = 0 /\ HandlerDetect

NextQuiet == Tick \/ EnvDetect \/ Ingest \/ Agent \/ Push

SpecQuiet == Init /\ [][NextQuiet]_vars

\* Status reads beside create events, the clock, and updates of
\* FILES_MODIFIED_THRESHOLD to values set_rates accepts.
RatePayloads == {<<<<"FILES_MODIFIED_THRESHOLD", JInt(n)>>>> : n \in {2, 0, -3}}

NextFileRate ==
    \/ Tick
    \/ \E p \in PlainPaths \cup OutsidePaths, d \in BOOLEAN : OnCreated(p, d)
    \/ \E payload \in RatePayloads : SetRatesBegin(payload, MaxRetunes)
    \/ SetRatesKey
    \/ SetRatesReturn
    \/ StatusBegin
    \/ StatusBytesNext

SpecFileRate == Init /\ [][NextFileRate]_vars

\* Status reads in a monitored tree where one create event fewer than the
\* shipped FILES_MODIFIED_THRESHOLD has been handled (for files since
\* deleted), beside further create events, writes and the clock.
AlmostThreshold == [i \in 1..(FILES_MODIFIED_THRESHOLD_0 - 1) |-> "a.txt"]

NextCreate ==
    \/ Tick
    \/ EnvDetect
    \/ \E p \in PlainPaths \cup OutsidePaths, d \in BOOLEAN : OnCreated(p, d)
    \/ StatusBegin
    \/ StatusBytesNext

SpecCreate == InitState("none", AlmostThreshold) /\ [][NextCreate]_vars

\* Notes dropped into the monitored tree: files with a plain and with a
\* ransom-note name are written and deleted and their create events handled,
\* beside the detection loop (whose quarantine removes a file and whose clear
\* empties the log) and status reads.
NotePaths == {"a.txt", "readme_for_decrypt.txt"}

\* agent_loop when no I/O fails and nobody is subscribed
AgentNoFaults ==
    /\ Alive
    /\ \/ AgentEvalBegin
       \/ AgentBytesNext
       \/ AgentDecide
       \/ AgentSnapshotFile(TRUE)
       \/ AgentBuildAlert
       \/ AgentQuarantineCopy(TRUE)
       \/ AgentQuarantineUnlink(TRUE)
       \/ AgentNotify(TRUE)
       \/ AgentBroadcastEnd
       \/ AgentClear
       \/ AgentSleep

NextNote ==
    \/ \E p \in NotePaths, c \in Contents \cup {"none"} : EnvWrite(p, c)
    \/ \E p \in NotePaths : OnCreated(p, FALSE)
    \/ AgentNoFaults
    \/ StatusBegin
    \/ StatusBytesNext

SpecNote == Init /\ [][NextNote]_vars

\* The filesystem handler alone: events inside and outside the monitored
\* tree, beside the writers of the tree and the clock.
NextEvents == Tick \/ EnvDetect \/ HandlerDetect

SpecEvents == Init /\ [][NextEvents]_vars

\* Subscribers connecting and leaving while the detection loop, triggered by
\* renames, broadcasts over connections none of which breaks.
AgentSendsSucceed ==
    /\ Alive
    /\ \/ AgentEvalBegin
       \/ AgentBytesNext
       \/ AgentDecide
       \/ AgentBuildAlert
       \/ AgentQuarantineCopy(TRUE)
       \/ AgentNotify(TRUE)
       \/ AgentBroadcastSend(TRUE)
       \/ AgentBroadcastEnd
       \/ AgentClear
       \/ AgentSleep

NextJoin ==
    \/ \E dst \in PlainPaths : OnMoved(dst)
    \/ AgentSendsSucceed
    \/ PushAll

SpecJoin == Init /\ [][NextJoin]_vars

\* -------------------------------------------------------------------- claims
\* A step of the main thread: one that moves agent_loop forward.
AgentStep == agent' # agent \/ iters'.agent # iters.agent

\* C1: in every evaluation cycle the branch taken is the one the thresholds
\* select: with the confidence at or above CONFIDENCE_ACTION_THRESHOLD the
\* cycle builds exactly one Alert, runs exactly one broadcast and its last
\* action leaves RecentFileLog empty; otherwise the cycle builds no Alert, runs
\* no snapshot, quarantine or broadcast, and no step of it changes
\* RecentFileLog.
C1_OneAlertPerTriggeredCycle ==
    [][/\ (agent.pc = "decide" /\ AgentStep) =>
            IF RLeq(runtime_config["CONFIDENCE_ACTION_THRESHOLD"].v, agent.confidence)
            THEN agent'.pc = "snapshot" /\ cyc'.branch = "action"
            ELSE agent'.pc = "sleep" /\ cyc'.branch \in {"warn", "info"}
       /\ (agent.pc # "sleep" /\ agent'.pc = "sleep") =>
            IF cyc'.branch = "action"
            THEN /\ cyc'.built = 1
                 /\ cyc'.broadcasts = 1
                 /\ recent_modified_files' = <<>>
            ELSE /\ cyc'.built = 0
                 /\ cyc'.broadcasts = 0
                 /\ cyc'.snapshots = <<>>
                 /\ cyc'.quarantines = <<>>
                 /\ cyc'.cleared = 0
       /\ (AgentStep /\ cyc.branch # "action") =>
            recent_modified_files' = recent_modified_files
      ]_vars

\* A triggered cycle at its end: the alert was sent to the subscriber.
C1_Witness ==
    /\ agent.pc = "sleep"
    /\ cyc.branch = "action"
    /\ cyc.built = 1
    /\ inbox[1] # <<>>
    /\ recent_modified_files = <<>>

\* The timestamps add() recorded that lie in [now - W, now].
InWindow(c, now) ==
    SelectSeq(recorded, LAMBDA t : now - c.window <= t /\ t <= now)

\* C2: whatever the window length, the add() calls and the clock advances,
\* count() returns the number of recorded timestamps in [now - W, now], and
\* the events it retains are exactly those.
C2_CountIsExact ==
    /\ CounterCount(file_mod_counter, clock) = Len(InWindow(file_mod_counter, clock))
    /\ CounterPrune(file_mod_counter, clock).events = InWindow(file_mod_counter, clock)

\* An event has left the window while a later one is still inside it.
C2_Witness ==
    /\ Len(recorded) >= 2
    /\ \E i \in 1..Len(recorded) : recorded[i] < clock - file_mod_counter.window
    /\ CounterCount(file_mod_counter, clock) >= 1
    /\ Len(file_mod_counter.events) = CounterCount(file_mod_counter, clock)

\* The window length in force.
ConfigWindow(cfg) == CfgInt(cfg, "TIME_WINDOW_SECONDS")

\* The step at which a set_rates request returns its response.
SetRatesReturns == api.pc \in {"set_loop", "set_swap"} /\ api'.pc = "idle"

\* That request has changed TIME_WINDOW_SECONDS.
WindowChanged ==
    runtime_config'["TIME_WINDOW_SECONDS"] # api.before["TIME_WINDOW_SECONDS"]

\* C3: in every state the other threads can observe, the file-rate counter and
\* the rename counter both have the window length that runtime_config's
\* TIME_WINDOW_SECONDS gives.
C3_WindowsFollowConfig ==
    /\ file_mod_counter.window = ConfigWindow(runtime_config)
    /\ rename_counter.window = ConfigWindow(runtime_config)

\* C4: when a set_rates request that has changed TIME_WINDOW_SECONDS returns,
\* with success or with an error for another key, both counters are counters
\* built with the new window length.
C4_ReturnFindsCountersRebuilt ==
    [][(SetRatesReturns /\ WindowChanged) =>
          /\ file_mod_counter'.window = ConfigWindow(runtime_config')
          /\ rename_counter'.window = ConfigWindow(runtime_config')
      ]_vars

\* C5: once a set_rates request has answered, every runtime_config key whose
\* value differs from the one the request found is in the response's applied
\* set, with its new value.
C5_ResponseListsApplied ==
    response.code # 0 =>
        \A k \in CfgKeys :
            runtime_config[k] # response.before[k] =>
                \E i \in 1..Len(response.updated) :
                    response.updated[i] = <<k, runtime_config[k]>>

\* runtime_config has its seven startup keys, each with a value of its startup
\* type; an int is a whole number.
ConfigTyped ==
    /\ DOMAIN runtime_config = CfgKeys
    /\ Cardinality(DOMAIN runtime_config) = 7
    /\ \A k \in CfgKeys :
          /\ runtime_config[k].ty = InitConfig[k].ty
          /\ runtime_config[k].ty = "int" => runtime_config[k].v[2] = 1

\* C6: through any sequence of set_rates requests runtime_config keeps its
\* seven keys and each key the type it started with; the pass of the loop that
\* meets a key not in runtime_config answers 400 naming that key and leaves
\* runtime_config as it is.
C6_ConfigKeepsShape ==
    /\ []ConfigTyped
    /\ [][(/\ api.pc = "set_loop"
           /\ api' # api
           /\ api.payload # <<>>
           /\ Head(api.payload)[1] \notin CfgKeys) =>
             /\ response'.code = 400
             /\ response'.error = "unknown key"
             /\ response'.key = Head(api.payload)[1]
             /\ api'.pc = "idle"
             /\ runtime_config' = runtime_config
         ]_vars

\* A float sent for an int key was stored truncated, a string for a float key
\* was stored as a float, and the request then met an unknown key.
C6_Witness ==
    /\ response.code = 400
    /\ response.error = "unknown key"
    /\ response.key = "BOGUS"
    /\ runtime_config["FILES_MODIFIED_THRESHOLD"] = PyInt(2)
    /\ runtime_config["CONFIDENCE_ACTION_THRESHOLD"] = PyFloat(RInt(7))

\* C7: when a set_rates request that has changed TIME_WINDOW_SECONDS returns,
\* count() of the file-rate counter and of the rename counter is 0; and no step
\* of set_rates changes recent_modified_files or proc_writes.
C7_WindowUpdateResetsCounters ==
    [][/\ (SetRatesReturns /\ WindowChanged) =>
            /\ CounterCount(file_mod_counter', clock') = 0
            /\ CounterCount(rename_counter', clock') = 0
       /\ (api' # api) =>
            /\ recent_modified_files' = recent_modified_files
            /\ proc_writes' = proc_writes
      ]_vars

\* The last outcome a sequence of outcomes records.
Last(s) == s[Len(s)]

\* C8: move_to_quarantine never changes the monitored tree before its copy
\* step has succeeded: the copy step itself leaves every file in place, it is
\* followed by the removal only when the copy is in the quarantine directory
\* with the size read from the source, a failed copy goes straight on to the
\* notification, and the only file the loop ever removes is that target.
C8_NoRemovalWithoutCopy ==
    [][/\ (agent.pc = "quarantine" /\ AgentStep) =>
            /\ files' = files
            /\ agent'.pc = "unlink" =>
                 \E q \in quarantine' :
                     /\ q.name = agent'.target
                     /\ q.content = files[agent'.target]
                     /\ FileSize(q.content) = agent'.copied
            /\ (cyc'.quarantines # cyc.quarantines /\ ~Last(cyc'.quarantines)) =>
                 agent'.pc = "notify" /\ quarantine' = quarantine
       /\ (agent.pc = "unlink" /\ AgentStep) =>
            /\ \E q \in quarantine :
                   q.name = agent.target /\ FileSize(q.content) = agent.copied
            /\ \A p \in InsidePaths \ {agent.target} : files'[p] = files[p]
       /\ (AgentStep /\ files' # files) => agent.pc = "unlink"
      ]_vars

\* The only file written was copied to quarantine and then removed.
C8_Witness ==
    /\ agent.pc = "notify"
    /\ cyc.quarantines = <<TRUE>>
    /\ used.fsops = 1
    /\ files["a.txt"] = "none"
    /\ \E q \in quarantine : q.name = "a.txt" /\ FileSize(q.content) = 4096

\* The program counters of the action pipeline, and what may follow each.
PipelinePcs == {"snapshot", "quarantine", "unlink", "notify", "broadcast", "clear"}
PipelineNext(pc) ==
    CASE pc = "snapshot" -> {"snapshot", "quarantine"}
      [] pc = "quarantine" -> {"unlink", "notify"}
      [] pc = "unlink" -> {"notify"}
      [] pc = "notify" -> {"broadcast"}
      [] pc = "broadcast" -> {"broadcast", "clear"}
      [] pc = "clear" -> {"sleep"}

\* C9: in a triggered cycle no outcome of a snapshot, of the quarantine or of
\* the notification stops the pipeline: a step is always possible, each step
\* leads to the next one, the snapshot loop ends only when every listed file
\* has been attempted, and the cycle ends having attempted the quarantine (when
\* there was a file), notified once, built one alert, broadcast once and
\* cleared recent_modified_files; the loop then returns to its test.
C9_PipelineRunsToTheEnd ==
    /\ [](agent.pc \in PipelinePcs => ENABLED Agent)
    /\ [][/\ (agent.pc \in PipelinePcs /\ AgentStep) =>
               /\ agent'.pc \in PipelineNext(agent.pc)
               /\ (agent.pc = "snapshot" /\ agent'.pc = "quarantine") =>
                     Len(cyc'.snapshots) = cyc'.planned
          /\ (agent.pc = "clear" /\ AgentStep) =>
               /\ Len(cyc'.snapshots) = cyc'.planned
               /\ cyc'.planned > 0 => Len(cyc'.quarantines) = 1
               /\ Len(cyc'.notified) = 1
               /\ cyc'.built = 1
               /\ cyc'.broadcasts = 1
               /\ cyc'.cleared = 1
               /\ recent_modified_files' = <<>>
          /\ (agent.pc = "sleep" /\ AgentStep) => agent'.pc = "eval"
         ]_vars

\* A triggered cycle at its end in which the first snapshot, the quarantine and
\* the notification all failed: the second snapshot was still taken, and the
\* broadcast and the clear still ran.
C9_Witness ==
    /\ agent.pc = "sleep"
    /\ cyc.branch = "action"
    /\ cyc.snapshots = <<FALSE, TRUE>>
    /\ cyc.quarantines = <<FALSE>>
    /\ cyc.notified = <<FALSE>>
    /\ cyc.broadcasts = 1
    /\ cyc.cleared = 1
    /\ backups # {}

\* C10: no interleaving of the filesystem handler with compute_confidence makes
\* the evaluation fail: the detection loop never leaves agent_loop on an
\* exception, and an evaluation that reaches the decision has seven scores.
C10_EvaluationCompletes ==
    /\ agent.pc # "crashed"
    /\ agent.pc = "decide" => DOMAIN agent.detectors = DetectorNames

C12_BroadcastDropsOnlyTheFailed ==
    [][/\ (agent.pc = "broadcast" /\ AgentStep /\ agent.todo # <<>>) =>
            LET conn == Head(agent.todo) IN
            /\ agent'.pc = "broadcast"
            /\ agent'.todo = Tail(agent.todo)
            /\ \A c \in WsClients \ {conn} : inbox'[c] = inbox[c]
            /\ \/ /\ inbox'[conn] = Append(inbox[conn], agent.alert.id)
                  /\ agent'.living = Append(agent.living, conn)
               \/ /\ inbox'[conn] = inbox[conn]
                  /\ agent'.living = agent.living
       /\ (agent.pc = "broadcast" /\ AgentStep /\ agent.todo = <<>>) =>
            /\ active_connections' = agent.living
            /\ \A i \in 1..Len(agent.living) :
                  /\ inbox[agent.living[i]] # <<>>
                  /\ Last(inbox[agent.living[i]]) = agent.alert.id
      ]_vars

\* The first subscriber's send failed and the second one, after it in the
\* list, has the alert: the broadcast is about to leave only the second.
C12_Witness ==
    /\ agent.pc = "broadcast"
    /\ agent.todo = <<>>
    /\ active_connections = <<1, 2>>
    /\ agent.living = <<2>>
    /\ inbox[1] = <<>>
    /\ inbox[2] = <<agent.alert.id>>

\* Nothing of the agent runs any more: the observer was stopped, the sampling
\* loop has ended, agent_loop was left and the process has exited, which closes
\* every connection it held.
Stopped ==
    /\ agent.pc = "exited"
    /\ process.observer = "stopped"
    /\ process.pm_thread = "stopped"
    /\ process.stop_event

\* C13: once the interrupt has been delivered, the listener, the sampling loop
\* and the detection loop all eventually stop and the process ends (closing
\* the subscribers' connections); and from then on nothing runs again.
C13_InterruptStopsEverything ==
    /\ process.sigint ~> Stopped
    /\ [][Stopped => UNCHANGED vars]_vars

\* The interrupt arrived in the middle of an action pipeline, after the alert
\* was built and before its broadcast, and everything has stopped.
C13_Witness ==
    /\ Stopped
    /\ cyc.branch = "action"
    /\ cyc.built = 1
    /\ cyc.broadcasts = 0
    /\ recent_modified_files # <<>>

\* x is in [0, 1].
InUnit(x) == RLeq(Zero, x) /\ RLeq(x, One)

\* C14: whatever runtime_config the updates have produced (zero and negative
\* thresholds included) and whatever the counters, the byte window, the log and
\* the write history hold, every status read that compute_confidence completes
\* returns seven scores in [0, 1] and a confidence in [0, 1].
C14_ScoresInUnitInterval ==
    /\ DOMAIN response.detectors = DetectorNames
    /\ \A k \in DetectorNames : InUnit(response.detectors[k])
    /\ InUnit(response.confidence)
    /\ (response.code = 200 /\ response.before = <<>>) =>
          response.confidence = Fuse(response.detectors)

\* A status read under a negative FILES_MODIFIED_THRESHOLD, with two events in
\* the window: the file-rate score is capped at 1 and the confidence is a proper
\* fraction.
C14_Witness ==
    /\ response.code = 200
    /\ response.before = <<>>
    /\ runtime_config["FILES_MODIFIED_THRESHOLD"] = PyInt(-3)
    /\ response.detectors["file_rate"] = One
    /\ RLess(Zero, response.confidence)
    /\ RLess(response.confidence, One)

\* The number of events of counter c that lie in its window at time now.
EventsInWindow(c, now) ==
    Cardinality({i \in 1..Len(c.events) : c.events[i] >= now - c.window})

\* A step of a status read: the call of compute_confidence, or one step of it.
StatusStep ==
    \/ api.pc = "idle" /\ api'.pc = "status_bytes"
    \/ /\ api.pc = "status_bytes"
       /\ handler' = handler
       /\ api' # api \/ iters'.status # iters.status

\* C15: no step of a status read changes runtime_config, the log, the byte
\* window, the write history or the subscriber set, and none changes the
\* window or the number of in-window events of the file-rate or the rename
\* counter: whatever count() drops was already outside the window.
C15_StatusReadIsReadOnly ==
    [][StatusStep =>
          /\ runtime_config' = runtime_config
          /\ recent_modified_files' = recent_modified_files
          /\ bytes_written_window' = bytes_written_window
          /\ proc_writes' = proc_writes
          /\ active_connections' = active_connections
          /\ file_mod_counter'.window = file_mod_counter.window
          /\ rename_counter'.window = rename_counter.window
          /\ EventsInWindow(file_mod_counter', clock')
                = EventsInWindow(file_mod_counter, clock)
          /\ EventsInWindow(rename_counter', clock')
                = EventsInWindow(rename_counter, clock)
      ]_vars

\* A status read has finished with a one-second window at time 2: of two modify
\* events the counter now holds only the one of time 2, and the log and the
\* byte window still hold what they held.
C15_Witness ==
    /\ response.code = 200
    /\ response.before = <<>>
    /\ clock = 2
    /\ file_mod_counter = [window |-> 1, events |-> <<2>>]
    /\ Len(recent_modified_files) = 2
    /\ bytes_written_window # <<>>

\* The name under which encrypt_and_store writes the artifact of backup b:
\* the file's name and the time stamp.
ArtifactName(b) == <<b.name, b.stamp>>

\* C16: the alert built for a triggered action lists exactly the artifacts
\* stored during that trigger: one entry per file whose snapshot succeeded,
\* none for a file whose snapshot failed, and every entry names the stored
\* file of an artifact.
C16_AlertListsStoredArtifacts ==
    [][cyc'.built = cyc.built + 1 =>
          LET s == agent'.alert.snapshots IN
          /\ Len(s) = Cardinality({i \in DOMAIN cyc.snapshots : cyc.snapshots[i]})
          /\ \A i \in DOMAIN s : \E b \in backups : s[i] = ArtifactName(b)
      ]_vars

\* The n most recently appended entries of log s (all of them when it has fewer).
Newest(s, n) == SubSeq(s, IF Len(s) < n THEN 1 ELSE Len(s) - n + 1, Len(s))

\* C17: the snapshot step of a triggered action is given exactly the
\* min(20, n) most recently appended paths of the log of length n.
C17_SnapshotTakesTheNewest ==
    [][agent.pc = "decide" /\ agent'.pc = "snapshot" =>
          agent'.todo = Newest(recent_modified_files, SnapshotLimit)]_vars

\* C18: the entropy score of an evaluation is the mean, over the files that
\* open among the min(5, n) most recently appended paths of the log, of their
\* capped normalized entropies, and 0.0 when none of them opens.
C18_EntropySamplesTheNewest ==
    [][agent.pc = "bytes" /\ agent'.pc = "decide" =>
          LET sampled == Newest(recent_modified_files, EntropySampleLimit)
              scores == EntropyScores(sampled, files,
                                      runtime_config["ENTROPY_THRESHOLD"].v)
          IN  agent'.detectors["entropy"] =
                 IF scores = <<>> THEN Zero
                 ELSE RDiv(RSum(scores), RInt(Len(scores)))
      ]_vars

\* C19: the bytes_written score is min(1, S / max(1, BYTES_WRITTEN_THRESHOLD))
\* where S sums only samples inside the window: the summation of a status
\* read never adds bytes of a sample older than now - TIME_WINDOW_SECONDS, and
\* the score it reports is that of the sum.
C19_StaleSamplesDoNotCount ==
    [][/\ (/\ api.pc = "status_bytes"
           /\ handler' = handler
           /\ iters'.status.pos = iters.status.pos + 1
           /\ iters'.status.total # iters.status.total)
          => bytes_written_window[iters'.status.pos][1]
                >= clock - CfgInt(runtime_config, "TIME_WINDOW_SECONDS")
       /\ (api.pc = "status_bytes" /\ api'.pc = "idle" /\ response'.code = 200)
          => response'.detectors["bytes_written"] =
                RMin(One, RDiv(RInt(iters.status.total),
                               RMax(One, runtime_config["BYTES_WRITTEN_THRESHOLD"].v)))
      ]_vars

\* ProcessWriteHistory without the samples of processes that have exited.
LiveHistory == [pid \in DOMAIN proc_writes |->
                   IF pid \in running THEN proc_writes[pid] ELSE <<>>]

\* C20: samples of a process that has exited are not used: the proc_behavior
\* score of an evaluation is the one computed from the histories of the
\* processes still running.
C20_ExitedProcessesDoNotCount ==
    [][(api.pc = "status_bytes" /\ api'.pc = "idle" /\ response'.code = 200)
          => response'.detectors["proc_behavior"] =
                detect_proc_behavior_score(LiveHistory, runtime_config)]_vars

C22_AlertsArriveInOrder ==
    \A c \in WsClients :
        \A i, j \in DOMAIN inbox[c] : i < j => inbox[c][i] < inbox[c][j]

C22_Witness ==
    /\ inbox[1] = <<1, 2>>
    /\ inbox[2] = <<2>>

\* The step of a status read that takes count() and computes file_rate.
FileRateStep == api.pc = "idle" /\ api'.pc = "status_bytes"

\* C23 as stated: the file_rate score computed from count c is at least the
\* score of every smaller count and at most that of every larger one, and it
\* is 1.0 whenever c >= FILES_MODIFIED_THRESHOLD, whatever accepted value
\* the threshold has.
C23_FileRateSaturatesAtThreshold ==
    [][FileRateStep =>
          LET c == EventsInWindow(file_mod_counter, clock)
              thr == CfgInt(runtime_config, "FILES_MODIFIED_THRESHOLD")
          IN  /\ \A n \in 0..c :
                    RLeq(detect_file_rate_score(n, runtime_config), api'.file_rate)
              /\ \A m \in c..(MaxEvents + 1) :
                    RLeq(api'.file_rate, detect_file_rate_score(m, runtime_config))
              /\ c >= thr => api'.file_rate = One
      ]_vars

\* C23, amended: the same, with saturation whenever c >= max(1, threshold);
\* with a threshold below 1 and no event in the window the score is 0.0.
C23_FileRateSaturatesAtFloor ==
    [][FileRateStep =>
          LET c == EventsInWindow(file_mod_counter, clock)
              thr == CfgInt(runtime_config, "FILES_MODIFIED_THRESHOLD")
          IN  /\ \A n \in 0..c :
                    RLeq(detect_file_rate_score(n, runtime_config), api'.file_rate)
              /\ \A m \in c..(MaxEvents + 1) :
                    RLeq(api'.file_rate, detect_file_rate_score(m, runtime_config))
              /\ (c >= thr /\ c >= 1) => api'.file_rate = One
              /\ (c = 0) => api'.file_rate = Zero
      ]_vars

C23_Witness ==
    /\ api.pc = "status_bytes"
    /\ runtime_config["FILES_MODIFIED_THRESHOLD"] = PyInt(2)
    /\ Len(file_mod_counter.events) = 2
    /\ api.file_rate = One

\* C24: with FILES_MODIFIED_THRESHOLD = 5, five create events in the window
\* give file_rate exactly 1.0, and an evaluation in which file_rate is 1.0 and
\* every other detector 0.0 has confidence exactly 0.25 over the sum of the
\* seven weights.
C24_FiveCreatesSaturateFileRate ==
    [][/\ (/\ FileRateStep
           /\ runtime_config["FILES_MODIFIED_THRESHOLD"] = PyInt(5)
           /\ EventsInWindow(file_mod_counter, clock) = 5)
          => api'.file_rate = One
       /\ (/\ api.pc = "status_bytes" /\ api'.pc = "idle" /\ response'.code = 200
           /\ response'.detectors = [NoDetectors EXCEPT !["file_rate"] = One])
          => response'.confidence =
                RDiv(Rat(25, 100),
                     RSum([i \in 1..7 |-> WEIGHTS[DetectorOrder[i]]]))
      ]_vars

C24_Witness ==
    /\ response.code = 200
    /\ Len(file_mod_counter.events) = 5
    /\ response.detectors = [NoDetectors EXCEPT !["file_rate"] = One]
    /\ response.confidence = Rat(25, 140)

\* Two characters that are the same letter in either case, or the same character.
SameLetter(x, y) ==
    \/ x = y
    \/ \E i \in 1..Len(Lowercase) : {x, y} = {Lowercase[i], Uppercase[i]}

\* The name of p contains one of the patterns, upper and lower case alike.
NamedLikeNote(p) ==
    \E pat \in ransom_note_patterns :
        \E k \in 0..(Len(NameOf(p)) - Len(pat)) :
            \A i \in 1..Len(pat) : SameLetter(NameOf(p)[k + i], pat[i])

\* C25: an evaluation's ransom_note score is 1.0 exactly when some path in the
\* log exists on disk and its name contains a ransom-note pattern in any
\* case, whatever the other detectors say; otherwise (file deleted, log
\* cleared) it is 0.0.
C25_RansomNoteScore ==
    [][(api.pc = "status_bytes" /\ api'.pc = "idle" /\ response'.code = 200)
          => response'.detectors["ransom_note"] =
                IF \E i \in 1..Len(recent_modified_files) :
                      /\ files[recent_modified_files[i]] # "none"
                      /\ NamedLikeNote(recent_modified_files[i])
                THEN One ELSE Zero
      ]_vars

C25_Witness ==
    /\ response.code = 200
    /\ response.detectors["ransom_note"] = One
    /\ response.detectors["entropy"] = One
    /\ recent_modified_files = <<"readme_for_decrypt.txt">>

\* The handling of an event whose path (for a move, whose destination) is
\* outside the monitored tree, and of a move into the tree.
OutsideEvent ==
    \/ \E p \in OutsidePaths, d \in BOOLEAN : OnModified(p, d) \/ OnCreated(p, d)
    \/ \E p \in OutsidePaths : OnMoved(p)
MoveInside == \E p \in InsidePaths : OnMoved(p)

\* C26: an event outside the monitored tree leaves the two counters, the
\* byte-sample window and the log as they are, and no outside path is ever in
\* the log; a move into the tree adds exactly one rename event, stamped now,
\* and changes nothing else.
C26_OutsideEventsAreIgnored ==
    /\ [][OutsideEvent =>
             UNCHANGED <<file_mod_counter, rename_counter, bytes_written_window,
                         recent_modified_files>>]_vars
    /\ [][MoveInside =>
             /\ rename_counter'.window = rename_counter.window
             /\ rename_counter'.events # <<>>
             /\ Last(rename_counter'.events) = clock
             /\ EventsInWindow(rename_counter', clock)
                   = EventsInWindow(rename_counter, clock) + 1
             /\ UNCHANGED <<runtime_config, file_mod_counter, bytes_written_window,
                            recent_modified_files, proc_writes, active_connections,
                            files, backups, quarantine, inbox>>]_vars
    /\ [](\A i \in 1..Len(recent_modified_files) :
             recent_modified_files[i] \in InsidePaths)

C26_Witness ==
    /\ rename_counter.events = <<1>>
    /\ file_mod_counter.events = <<0>>
    /\ recent_modified_files = <<"a.txt">>
    /\ Len(bytes_written_window) = 1
    /\ used.events = 2

\* C27: a file the quarantine removes from the monitored tree was among the
\* paths this trigger's snapshot loop was given (the log has only grown since,
\* so these are its first cyc.planned entries).
C27_QuarantinedFileWasSnapshotted ==
    [][(agent.pc = "unlink" /\ files' # files)
          => \E i \in 1..cyc.planned : recent_modified_files[i] = agent.target]_vars

\* C28: a broadcast none of whose sends fails drops nobody: every connection
\* in the active set when the broadcast finishes, a subscriber that connected
\* during the broadcast included, is in the active set afterwards.
C28_ConnectDuringBroadcastIsKept ==
    [][(agent.pc = "broadcast" /\ agent'.pc = "clear")
          => \A i \in 1..Len(active_connections) :
                \E j \in 1..Len(active_connections') :
                    active_connections'[j] = active_connections[i]]_vars

\* C29: the clear at the end of a triggered action removes only the paths
\* that were in the log when the snapshot step read it (its first cyc.planned
\* entries, for a log shorter than the snapshot limit); the paths appended
\* since are still in the log afterwards.
C29_ClearKeepsUnseenPaths ==
    [][(agent.pc = "clear" /\ agent'.pc = "sleep" /\ cyc.planned < SnapshotLimit)
          => recent_modified_files' =
                SubSeq(recent_modified_files, cyc.planned + 1,
                       Len(recent_modified_files))]_vars

====
